---------------------------- MODULE Spec2Model ----------------------------
(***************************************************************************)
(* A model of the lecture-notes pipeline of backend/app/services/pipeline.py *)
(* (class NotesPipeline).                                                  *)
(*                                                                         *)
(* Times.  TranscriptEntry.start and .duration are Python floats.  They are *)
(* modelled as a whole number of ticks, TicksPerSecond ticks to the second, *)
(* so that int(x) (truncation) is a real conversion: IntOf(x).  Window      *)
(* bounds (start, end, cursor, last) are Python ints, in seconds.           *)
(***************************************************************************)
EXTENDS Integers, Sequences, FiniteSets, TLC

VARIABLES
    pc,              \* position of the modelled call
    entries,         \* _topic_windows: the entries argument
    max_topics,      \* _topic_windows: the max_topics argument
    window_seconds,  \* _topic_windows: the window_seconds argument
    cursor,          \* _topic_windows: local cursor
    last,            \* _topic_windows: local last
    grouped,         \* _topic_windows: local grouped
    iterations,      \* number of loop iterations taken so far (history)
    windows,         \* _topic_windows: the returned list
    fn_in,           \* the arguments of the text function under check
    fn_out,          \* what the text function returned
    language,        \* run: the language argument
    style,           \* run: the style argument
    video_id,        \* _collect_raw_data: video_id
    transcript_error, \* _collect_raw_data: transcript_error ("" for None)
    raw,             \* run: raw, the RawPipelineOutput
    llm_config,      \* the process's settings and client library, once read
    topics,          \* _structure_notes: topics
    gathered,        \* per topic, the positions of the OCR entries in ocr_lines
    sources,         \* what the video's sources hold, for the run in progress
    result,          \* how run ended: the notes it returned or what it raised
    EXPORT_INDEX,    \* routes.EXPORT_INDEX: note_id -> format -> path
    uuids,           \* how many values uuid4() has given so far
    files,           \* the paths that exist in export_dir
    served,          \* the status codes answered so far, in order
    last_response    \* the answer to the last request

winVars == <<entries, max_topics, window_seconds, cursor, last, grouped,
             iterations, windows>>

fnVars == <<fn_in, fn_out>>

runVars == <<language, style, video_id, transcript_error, raw, llm_config,
             topics, gathered, sources, result>>

apiVars == <<EXPORT_INDEX, uuids, files, served, last_response>>

vars == <<pc, winVars, fnVars, runVars, apiVars>>

\* The values of the variables a specification does not use.
NoPath == [ext |-> "", uuid |-> 0]

NoResponse ==
    [op |-> "none", run |-> "", status |-> 0, note_id |-> 0, fmt |-> "", path |-> NoPath]

ApiIdle ==
    /\ EXPORT_INDEX = <<>>
    /\ uuids = 0
    /\ files = {}
    /\ served = <<>>
    /\ last_response = NoResponse

WinIdle ==
    /\ entries = <<>>
    /\ max_topics = 0
    /\ window_seconds = 0
    /\ cursor = 0
    /\ last = 0
    /\ grouped = <<>>
    /\ iterations = 0
    /\ windows = <<>>

FnIdle == fn_in = <<>> /\ fn_out = <<>>

NoRaw == [transcript_entries |-> <<>>, ocr_entries |-> <<>>, code_snippets |-> <<>>]

NoResult == [status |-> "none", error |-> ""]

\* Whether fetching the transcript failed, how many entries it gave and how
\* many entries OCR gives for the video.
Sources(failed, transcript, ocr) ==
    [transcript_failed |-> failed, transcript_entries |-> transcript,
     ocr_entries |-> ocr]

NoSources == Sources(FALSE, 0, 0)

RunIdle ==
    /\ language = ""
    /\ style = ""
    /\ video_id = ""
    /\ transcript_error = ""
    /\ raw = NoRaw
    /\ llm_config = ""
    /\ topics = <<>>
    /\ gathered = <<>>
    /\ sources = NoSources
    /\ result = NoResult

---------------------------------------------------------------------------
(* Bounds of the model *)

TicksPerSecond == 2
MaxEntries == 2
MaxStartTicks == 4
MaxDurTicks == 1
MaxTopicsIn == 2
MaxWindowIn == 2
MaxLines == 2
MaxCodeLines == 21
MaxOcrLines == 3

(* entries[:40] in the degenerate-timing fallback *)
FallbackCap == 40

---------------------------------------------------------------------------
(* Helpers *)

Min(a, b) == IF a <= b THEN a ELSE b

\* The positions of s, in order, whose element satisfies P.
RECURSIVE SelectIdxFrom(_, _, _)
SelectIdxFrom(s, P(_), i) ==
    IF i > Len(s) THEN <<>>
    ELSE (IF P(s[i]) THEN <<i>> ELSE <<>>) \o SelectIdxFrom(s, P, i + 1)

SelectIdx(s, P(_)) == SelectIdxFrom(s, P, 1)

\* int(x) of a non-negative float: truncation to whole seconds.
IntOfCeil(x) == (x + TicksPerSecond - 1) \div TicksPerSecond

IntOf(x) == x \div TicksPerSecond

TranscriptEntry(text, start, duration) ==
    [text |-> text, start |-> start, duration |-> duration]

---------------------------------------------------------------------------
(* Text.  A Python str is modelled as a sequence of tokens: a token is a    *)
(* word, a punctuation mark, a bracket "[" or "]", a space " " or a line    *)
(* break "\n".  The empty str is <<>>.                                      *)

IsSpace(t) == t \in {" ", "\n"}

\* (a form with upper-case letters, its str.lower())
CasePairs ==
    { <<"A", "a">>, <<"B", "b">>, <<"PDF", "pdf">>, <<"Docx", "docx">>, <<"This", "this">>, <<"Is", "is">>,
      <<"INT", "int">>, <<"Int", "int">>, <<"Def", "def">>, <<"Import", "import">>,
      <<"No", "no">>, <<"Exam", "exam">>, <<"Music", "music">>,
      <<"Voltage", "voltage">>, <<"Therefore", "therefore">>, <<"So", "so">>,
      <<"X", "x">>, <<"MAIN", "main">>, <<"Force", "force">>,
      <<"Rewritten", "rewritten">>, <<"Extra", "extra">>,
      <<"Point", "point">>,
      <<"Revision", "revision">>,
      <<"Current", "current">>,
      <<"Times", "times">>,
      <<"Mass", "mass">>,
      <<"Board", "board">>,
      <<"Screen", "screen">>,
      <<"Clear", "clear">>,
      <<"Text", "text">>,
      <<"Detected", "detected">>,
      <<"Segment", "segment">>,
      <<"Flows", "flows">>,
      <<"Then", "then">>,
      <<"Code", "code">>,
      <<"Main", "main">>,
      <<"Include", "include">>,
      <<"Console", "console">>,
      <<"Transcript", "transcript">>,
      <<"Lecture", "lecture">>,
      <<"Extracted", "extracted">>,
      <<"Cleaned", "cleaned">>,
      <<"Readability", "readability">>,
      <<"Line", "line">>,
      <<"Focus", "focus">>,
      <<"Concept", "concept">>,
      <<"Topic", "topic">>,
      <<"Section", "section">>,
      <<"Return", "return">> }

\* str.lower() of one token
LowerTok(t) ==
    IF \E p \in CasePairs : p[1] = t
    THEN (CHOOSE p \in CasePairs : p[1] = t)[2]
    ELSE t

\* str.lower()
Lower(text) == [i \in 1..Len(text) |-> LowerTok(text[i])]

\* The position of the "]" that closes a "[" when the scan is at j: the first
\* "]" with no line break before it ("." does not match "\n"), or 0.
RECURSIVE CloseFrom(_, _)
CloseFrom(text, j) ==
    IF j > Len(text) THEN 0
    ELSE IF text[j] = "]" THEN j
    ELSE IF text[j] = "\n" THEN 0
    ELSE CloseFrom(text, j + 1)

\* re.sub(r"\[.*?\]", " ", text), scanning from position i
RECURSIVE SubBrackets(_, _)
SubBrackets(text, i) ==
    IF i > Len(text) THEN <<>>
    ELSE IF text[i] = "[" /\ CloseFrom(text, i + 1) # 0
    THEN <<" ">> \o SubBrackets(text, CloseFrom(text, i + 1) + 1)
    ELSE <<text[i]>> \o SubBrackets(text, i + 1)

\* text.replace("\n", " ")
ReplaceNewlines(text) ==
    [i \in 1..Len(text) |-> IF text[i] = "\n" THEN " " ELSE text[i]]

\* re.sub(r"\s+", " ", text), scanning from position i
RECURSIVE CollapseSpaces(_, _)
CollapseSpaces(text, i) ==
    IF i > Len(text) THEN <<>>
    ELSE IF IsSpace(text[i])
    THEN (IF i > 1 /\ IsSpace(text[i - 1]) THEN <<>> ELSE <<" ">>)
         \o CollapseSpaces(text, i + 1)
    ELSE <<text[i]>> \o CollapseSpaces(text, i + 1)

\* str.strip()
RECURSIVE Strip(_)
Strip(text) ==
    IF text = <<>> THEN <<>>
    ELSE IF IsSpace(text[1]) THEN Strip(Tail(text))
    ELSE IF IsSpace(text[Len(text)]) THEN Strip(SubSeq(text, 1, Len(text) - 1))
    ELSE text

\* NotesPipeline._clean_text
clean_text(text) ==
    Strip(CollapseSpaces(ReplaceNewlines(SubBrackets(text, 1)), 1))

\* len(text.split()): the number of maximal runs of non-space tokens
WordCount(text) ==
    Cardinality({ i \in 1..Len(text) :
                    ~IsSpace(text[i]) /\ (i = 1 \/ IsSpace(text[i - 1])) })

OcrEntry(text, second) == [text |-> text, second |-> second]

---------------------------------------------------------------------------
(* The Deduplicator: _unique_lines, _dedupe_transcript, _dedupe_ocr *)

\* key = cleaned.lower()
LineKeyCaseSensitive(cleaned) == cleaned

LineKey(cleaned) == Lower(cleaned)

\* NotesPipeline._unique_lines: the loop from position i with the keys seen
RECURSIVE UniqueFrom(_, _, _)
UniqueFrom(ls, i, seen) ==
    IF i > Len(ls) THEN <<>>
    ELSE LET cleaned == clean_text(ls[i])
             key == LineKey(cleaned)
         IN IF cleaned = <<>> \/ key \in seen
            THEN UniqueFrom(ls, i + 1, seen)
            ELSE <<cleaned>> \o UniqueFrom(ls, i + 1, seen \cup {key})

unique_lines(ls) == UniqueFrom(ls, 1, {})

\* key = entry.text.lower()
EntryKey(entry) == Lower(entry.text)

\* NotesPipeline._dedupe_transcript and _dedupe_ocr (the same loop over
\* entries of either kind): from position i with the keys seen
RECURSIVE DedupeFrom(_, _, _)
DedupeFrom(es, i, seen) ==
    IF i > Len(es) THEN <<>>
    ELSE IF EntryKey(es[i]) \in seen
    THEN DedupeFrom(es, i + 1, seen)
    ELSE <<es[i]>> \o DedupeFrom(es, i + 1, seen \cup {EntryKey(es[i])})

dedupe_transcript(es) == DedupeFrom(es, 1, {})

dedupe_ocr(es) == DedupeFrom(es, 1, {})

---------------------------------------------------------------------------
(* The code-like classifiers: the patterns of re.search, read on tokens.    *)
(* Matching is IGNORECASE, so the patterns are applied to Lower(text).  The *)
(* vocabulary holds each keyword as a token of its own and no token that    *)
(* merely contains one.                                                     *)

NonWordToks ==
    {" ", "\n", "(", ")", "{", "}", "=", ";", "[", "]", ":", ",", "#include",
     "console.log"}

DigitToks == {"0", "1", "2", "3", "4", "5", "6", "7", "8", "9"}

TypeToks == {"int", "float", "double", "char", "long", "short", "bool", "string"}

\* \w
IsWordTok(t) == t \notin NonWordToks

\* [a-zA-Z_]
IsIdentStart(t) == IsWordTok(t) /\ t \notin DigitToks

\* The first position from i on whose token does not satisfy P (Len + 1 if none).
RECURSIVE SkipWhile(_, _, _)
SkipWhile(L, P(_), i) ==
    IF i > Len(L) THEN i
    ELSE IF P(L[i]) THEN SkipWhile(L, P, i + 1)
    ELSE i

SkipSpaces(L, i) == SkipWhile(L, IsSpace, i)

TokAt(L, i) == IF i >= 1 /\ i <= Len(L) THEN L[i] ELSE ""

\* ^\s*#include
P_include(L) == TokAt(L, SkipSpaces(L, 1)) = "#include"

\* ^\s*import<space>
P_import(L) ==
    /\ TokAt(L, SkipSpaces(L, 1)) = "import"
    /\ TokAt(L, SkipSpaces(L, 1) + 1) = " "

\* kw\s+next
KwSpacesThen(L, kw, next) ==
    \E i \in 1..Len(L) :
        /\ L[i] = kw
        /\ SkipSpaces(L, i + 1) > i + 1
        /\ TokAt(L, SkipSpaces(L, i + 1)) = next

\* kw\s*\(
KwThenParen(L, kw) ==
    \E i \in 1..Len(L) : L[i] = kw /\ TokAt(L, SkipSpaces(L, i + 1)) = "("

\* int\s+main
P_int_main(L) == KwSpacesThen(L, "int", "main")

\* return\s+\d+;
P_return(L) ==
    \E i \in 1..Len(L) :
        /\ L[i] = "return"
        /\ SkipSpaces(L, i + 1) > i + 1
        /\ TokAt(L, SkipSpaces(L, i + 1)) \in DigitToks
        /\ TokAt(L, SkipWhile(L, LAMBDA t : t \in DigitToks, SkipSpaces(L, i + 1))) = ";"

\* for\s*\(|while\s*\(|if\s*\(
P_header(L) == KwThenParen(L, "for") \/ KwThenParen(L, "while") \/ KwThenParen(L, "if")

\* console\.log
P_console(L) == \E i \in 1..Len(L) : L[i] = "console.log"

\* def\s+
P_def(L) == \E i \in 1..Len(L) : L[i] = "def" /\ IsSpace(TokAt(L, i + 1))

\* \b(?:int|float|double|char|long|short|bool|string)\b\s+[a-zA-Z_]\w*\s*=.*;
P_typed(L) ==
    \E i \in 1..Len(L) :
        /\ L[i] \in TypeToks
        /\ (i = 1 \/ ~IsWordTok(L[i - 1]))
        /\ SkipSpaces(L, i + 1) > i + 1
        /\ LET j == SkipSpaces(L, i + 1)
               m == SkipSpaces(L, SkipWhile(L, IsWordTok, j + 1))
           IN /\ IsIdentStart(TokAt(L, j)) /\ TokAt(L, j) # ""
              /\ TokAt(L, m) = "="
              /\ \E n \in (m + 1)..Len(L) :
                    /\ L[n] = ";"
                    /\ \A q \in (m + 1)..(n - 1) : L[q] # "\n"

\* ^\s*[{}]\s*$
P_brace(L) == Strip(L) \in {<<"{">>, <<"}">>}

\* ;\s*$
P_semi_end(L) == Strip(L) # <<>> /\ Strip(L)[Len(Strip(L))] = ";"

\* code_like.search(text) of _extract_code_candidates (lines 239-243)
code_like(text) ==
    LET L == Lower(text)
    IN \/ P_include(L) \/ P_import(L) \/ P_int_main(L) \/ P_return(L)
       \/ P_header(L) \/ P_console(L) \/ P_def(L) \/ P_typed(L) \/ P_brace(L)

\* NotesPipeline._looks_code
looks_code(text) ==
    LET L == Lower(text)
    IN \/ P_include(L) \/ P_semi_end(L) \/ P_int_main(L) \/ P_header(L)
       \/ P_return(L) \/ P_def(L) \/ P_console(L) \/ P_typed(L) \/ P_brace(L)

---------------------------------------------------------------------------
(* NotesPipeline._extract_code_candidates *)

\* "\n".join(ls)
RECURSIVE JoinLines(_)
JoinLines(ls) ==
    IF ls = <<>> THEN <<>>
    ELSE IF Len(ls) = 1 THEN ls[1]
    ELSE ls[1] \o <<"\n">> \o JoinLines(Tail(ls))

\* text.splitlines()
RECURSIVE SplitLines(_)
SplitLines(text) ==
    IF text = <<>> THEN <<>>
    ELSE LET n == SkipWhile(text, LAMBDA t : t # "\n", 1)
         IN <<SubSeq(text, 1, n - 1)>> \o SplitLines(SubSeq(text, n + 1, Len(text)))

\* s[:n]
Take(s, n) == SubSeq(s, 1, Min(n, Len(s)))

\* Lines 246-251: the texts of the code-like transcript entries, then those
\* of the code-like OCR entries.
PoolOcrFirst(transcript_entries, ocr_entries) ==
    LET T == SelectSeq(transcript_entries, LAMBDA e : code_like(e.text))
        O == SelectSeq(ocr_entries, LAMBDA e : code_like(e.text))
    IN [i \in 1..Len(O) |-> O[i].text] \o [i \in 1..Len(T) |-> T[i].text]

Pool(transcript_entries, ocr_entries) ==
    LET T == SelectSeq(transcript_entries, LAMBDA e : code_like(e.text))
        O == SelectSeq(ocr_entries, LAMBDA e : code_like(e.text))
    IN [i \in 1..Len(T) |-> T[i].text] \o [i \in 1..Len(O) |-> O[i].text]

\* Line 253: cleaned = self._unique_lines(pool)[:20]
PoolCap == 20

Cleaned(pool) == Take(unique_lines(pool), PoolCap)

\* Lines 257-265: groups of 8 lines, each joined by line breaks
GroupSize == 8

RECURSIVE GroupLoop(_, _, _)
GroupLoop(cleaned, i, current) ==
    IF i > Len(cleaned)
    THEN (IF current # <<>> THEN <<JoinLines(current)>> ELSE <<>>)
    ELSE LET appended == Append(current, cleaned[i])
         IN IF Len(appended) >= GroupSize
            THEN <<JoinLines(appended)>> \o GroupLoop(cleaned, i + 1, <<>>)
            ELSE GroupLoop(cleaned, i + 1, appended)

\* Line 266: return grouped[:2]
MaxGroups == 2

ReturnGroupsAll(gs) == gs

ReturnGroups(gs) == Take(gs, MaxGroups)

extract_code_candidates(transcript_entries, ocr_entries) ==
    LET cleaned == Cleaned(Pool(transcript_entries, ocr_entries))
    IN IF cleaned = <<>> THEN <<>>
       ELSE ReturnGroups(GroupLoop(cleaned, 1, <<>>))

---------------------------------------------------------------------------
(* The Sentence Simplifier and the Style Formatter *)

\* (a token, the token with its first character in upper case)
CapPairs ==
    { <<"this", "This">>, <<"so", "So">>, <<"voltage", "Voltage">>,
      <<"int", "Int">>, <<"def", "Def">>, <<"no", "No">>, <<"exam", "Exam">>,
      <<"a", "A">>, <<"b", "B">>, <<"x", "X">>, <<"music", "Music">>,
      <<"is", "Is">>, <<"import", "Import">>, <<"therefore", "Therefore">>,
      <<"force", "Force">>, <<"rewritten", "Rewritten">>, <<"ok", "Ok">>,
      <<"point", "Point">>,
      <<"revision", "Revision">>,
      <<"current", "Current">>,
      <<"times", "Times">>,
      <<"mass", "Mass">>,
      <<"board", "Board">>,
      <<"screen", "Screen">>,
      <<"clear", "Clear">>,
      <<"text", "Text">>,
      <<"detected", "Detected">>,
      <<"segment", "Segment">>,
      <<"flows", "Flows">>,
      <<"then", "Then">>,
      <<"code", "Code">>,
      <<"main", "Main">>,
      <<"include", "Include">>,
      <<"console", "Console">>,
      <<"transcript", "Transcript">>,
      <<"lecture", "Lecture">>,
      <<"extracted", "Extracted">>,
      <<"cleaned", "Cleaned">>,
      <<"readability", "Readability">>,
      <<"extra", "Extra">>,
      <<"line", "Line">>,
      <<"focus", "Focus">>,
      <<"concept", "Concept">>,
      <<"topic", "Topic">>,
      <<"section", "Section">>,
      <<"return", "Return">> }

\* out[:1].upper() + out[1:]
CapFirst(out) ==
    IF out = <<>> THEN out
    ELSE IF \E p \in CapPairs : p[1] = out[1]
    THEN <<(CHOOSE p \in CapPairs : p[1] = out[1])[2]>> \o Tail(out)
    ELSE out

\* The replacements of _simplify_sentence, in dict order (lines 535-542)
SimplifyTable ==
    << <<"therefore", "so">>, <<"hence", "so">>, <<"approximately", "about">>,
       <<"utilize", "use">>, <<"demonstrates", "shows">>,
       <<"fundamentally", "mainly">> >>

\* out.replace(old, new)
Replace(out, old, new) == [i \in 1..Len(out) |-> IF out[i] = old THEN new ELSE out[i]]

RECURSIVE ReplaceAll(_, _)
ReplaceAll(out, r) ==
    IF r > Len(SimplifyTable) THEN out
    ELSE ReplaceAll(Replace(out, SimplifyTable[r][1], SimplifyTable[r][2]), r + 1)

\* NotesPipeline._simplify_sentence
simplify_sentence(text) == CapFirst(ReplaceAll(Lower(clean_text(text)), 1))

\* The substitutions of _to_hinglish, in dict order (lines 556-566)
HinglishTable ==
    << [word |-> "this", value |-> <<"ye">>],
       [word |-> "is", value |-> <<"hai">>],
       [word |-> "are", value |-> <<"hain">>],
       [word |-> "shows", value |-> <<"show", " ", "karta", " ", "hai">>],
       [word |-> "because", value |-> <<"kyunki">>],
       [word |-> "and", value |-> <<"aur">>],
       [word |-> "with", value |-> <<"ke", " ", "saath">>],
       [word |-> "for", value |-> <<"ke", " ", "liye">>],
       [word |-> "use", value |-> <<"use", " ", "karo">>] >>

\* \bword\b at position i
IsWholeWord(text, i) ==
    /\ (i = 1 \/ ~IsWordTok(text[i - 1]))
    /\ (i = Len(text) \/ ~IsWordTok(text[i + 1]))

\* re.sub(r"\bword\b", value, out, flags=re.IGNORECASE), from position i
RECURSIVE SubWord(_, _, _, _)
SubWord(out, word, value, i) ==
    IF i > Len(out) THEN <<>>
    ELSE (IF LowerTok(out[i]) = word /\ IsWholeWord(out, i)
          THEN value ELSE <<out[i]>>)
         \o SubWord(out, word, value, i + 1)

RECURSIVE HinglishFrom(_, _)
HinglishFrom(out, r) ==
    IF r > Len(HinglishTable) THEN out
    ELSE HinglishFrom(SubWord(out, HinglishTable[r].word, HinglishTable[r].value, 1),
                      r + 1)

\* NotesPipeline._to_hinglish
to_hinglish(text) == HinglishFrom(text, 1)

\* f"Exam focus: {text}"
ExamPrefix == <<"Exam", " ", "focus", ":", " ">>

\* NotesPipeline._format_text
format_text(text, lang, sty) ==
    LET prefixed == IF sty = "exam" THEN ExamPrefix \o text ELSE text
    IN IF lang = "hinglish" THEN to_hinglish(prefixed) ELSE prefixed

\* NotesPipeline._to_points: the loop from line i with the points so far
RECURSIVE PointsFrom(_, _, _, _, _, _)
PointsFrom(ls, i, points, max_points, lang, sty) ==
    IF i > Len(ls) THEN points
    ELSE LET candidate == simplify_sentence(ls[i])
         IN IF WordCount(candidate) < 5
            THEN PointsFrom(ls, i + 1, points, max_points, lang, sty)
            ELSE LET formatted == format_text(candidate, lang, sty)
                     appended == IF \E k \in 1..Len(points) : points[k] = formatted
                                 THEN points ELSE Append(points, formatted)
                 IN IF Len(appended) >= max_points THEN appended
                    ELSE PointsFrom(ls, i + 1, appended, max_points, lang, sty)

to_points(ls, max_points, lang, sty) ==
    PointsFrom(ls, 1, <<>>, max_points, lang, sty)

---------------------------------------------------------------------------
(* The rewrite collaborator: NotesPipeline._llm_rewrite_points.            *)
(* llm_config is what holds for the whole process: "no_key" (no            *)
(* openai_api_key in the settings), "no_library" (the import of openai      *)
(* raises), "ctor_raises" (OpenAI(api_key=...) raises) or "ok".  A response *)
(* is what one call of client.responses.create does: "raises" (any          *)
(* exception, a timeout included), "malformed" (output_text is no str),     *)
(* "empty", "blank" (only white space), or the text of a rewrite with       *)
(* "fewer" lines than bullets, the "same" number, or "more".                *)

LlmConfigs == {"no_key", "no_library", "ctor_raises", "ok"}

Responses == {"raises", "malformed", "empty", "blank", "fewer", "same", "more"}

\* One rewritten bullet.
RewrittenLine(point) == <<"-", " ", "Rewritten", " ">> \o point

\* response.output_text for a response that carries text
OutputText(points, response) ==
    IF response = "empty" THEN <<>>
    ELSE IF response = "blank" THEN <<" ", "\n", " ", "\n">>
    ELSE IF response = "fewer"
    THEN JoinLines([k \in 1..(Len(points) - 1) |-> RewrittenLine(points[k])])
    ELSE IF response = "same"
    THEN JoinLines([k \in 1..Len(points) |-> RewrittenLine(points[k])])
    ELSE JoinLines([k \in 1..Len(points) |-> RewrittenLine(points[k])])
         \o <<"\n", "\n", "Extra", " ", "line">>

\* Lines 414-416: the rewritten bullets of a response text
RewrittenNoCut(points, text) ==
    LET ls == SplitLines(text)
        cleaned == [k \in 1..Len(ls) |-> clean_text(ls[k])]
        rewritten == SelectSeq(cleaned, LAMBDA x : x # <<>>)
    IN IF rewritten # <<>> THEN rewritten ELSE points

Rewritten(points, text) ==
    LET ls == SplitLines(text)
        cleaned == [k \in 1..Len(ls) |-> clean_text(ls[k])]
        rewritten == SelectSeq(cleaned, LAMBDA x : x # <<>>)
    IN IF rewritten # <<>> THEN Take(rewritten, Len(points)) ELSE points

\* NotesPipeline._llm_rewrite_points: what the call does, [raised |-> TRUE]
\* when an exception leaves it, else the list it returns.
llm_rewrite_points(points, config, response) ==
    IF points = <<>> THEN [raised |-> FALSE, points |-> points]
    ELSE IF config = "no_key" THEN [raised |-> FALSE, points |-> points]
    ELSE IF config = "no_library" THEN [raised |-> FALSE, points |-> points]
    ELSE IF config = "ctor_raises" THEN [raised |-> TRUE, points |-> <<>>]
    ELSE IF response \in {"raises", "malformed"}
    THEN [raised |-> FALSE, points |-> points]
    ELSE [raised |-> FALSE, points |-> Rewritten(points, OutputText(points, response))]

---------------------------------------------------------------------------
(* The Formula Detector and the Code Block Annotator *)

FormulaToks ==
    {"=", "plus", "minus", "integral", "derivative", "matrix", "voltage",
     "current", "force", "energy", "sum", "sigma", "kcl", "kvl"}

\* pattern.search(line) of _extract_formula_like_lines
formula_like(line) == \E i \in 1..Len(line) : LowerTok(line[i]) \in FormulaToks

FormulaCap == 6

\* Lines 444-448: the loop from line i with the formulas so far
RECURSIVE FormulasFrom(_, _, _)
FormulasFrom(ls, i, formulas) ==
    IF i > Len(ls) THEN formulas
    ELSE IF formula_like(ls[i])
            /\ clean_text(ls[i]) # <<>>
            /\ ~\E k \in 1..Len(formulas) : formulas[k] = clean_text(ls[i])
    THEN FormulasFrom(ls, i + 1, Append(formulas, clean_text(ls[i])))
    ELSE FormulasFrom(ls, i + 1, formulas)

\* NotesPipeline._extract_formula_like_lines
extract_formula_like_lines(ls) == Take(FormulasFrom(ls, 1, <<>>), FormulaCap)

\* NotesPipeline._clean_code
clean_code(code) ==
    LET ls == SplitLines(code)
        cleaned == [k \in 1..Len(ls) |-> clean_text(ls[k])]
    IN JoinLines(SelectSeq(cleaned, LAMBDA x : x # <<>>))

\* sub in text, for a run of tokens sub
Contains(text, sub) ==
    \E i \in 1..(Len(text) - Len(sub) + 1) : SubSeq(text, i, i + Len(sub) - 1) = sub

\* NotesPipeline._guess_language
guess_language(code) ==
    LET lower == Lower(code)
    IN IF Contains(lower, <<"#include">>) \/ Contains(lower, <<"int", " ", "main">>)
       THEN "c"
       ELSE IF Contains(lower, <<"import", " ">>) \/ Contains(lower, <<"def", " ">>)
       THEN "python"
       ELSE IF Contains(lower, <<"console.log">>) \/ Contains(lower, <<"function", " ">>)
       THEN "javascript"
       ELSE IF Contains(lower, <<"public", " ", "static", " ", "void", " ", "main">>)
       THEN "java"
       ELSE "text"

\* The template sentence of line 468
CodeExplanation ==
    <<"This", " ", "code", " ", "is", " ", "extracted", " ", "from", " ", "the",
      " ", "lecture", " ", "screen/transcript", " ", "and", " ", "cleaned", " ",
      "for", " ", "readability", ".">>

BlockCap == 3

\* Lines 458-474: the loop over the snippets (line_by_line is left out)
RECURSIVE BlocksFrom(_, _, _, _)
BlocksFrom(snippets, i, lang, sty) ==
    IF i > Len(snippets) THEN <<>>
    ELSE LET cleaned == clean_code(snippets[i])
         IN (IF Len(SplitLines(cleaned)) < 1 THEN <<>>
             ELSE <<[language |-> guess_language(cleaned),
                     code |-> cleaned,
                     explanation |-> format_text(CodeExplanation, lang, sty)]>>)
            \o BlocksFrom(snippets, i + 1, lang, sty)

\* Line 475: return blocks[:3]
build_code_blocks(snippets, lang, sty) ==
    Take(BlocksFrom(snippets, 1, lang, sty), BlockCap)

---------------------------------------------------------------------------
(* NotesPipeline._topic_windows *)

\* chunk = [x for x in entries if start <= int(x.start) < end], as positions
\* of entries (the list holds references to the very entry objects).
ChunkInclusiveEnd(es, start, end) ==
    SelectIdx(es, LAMBDA x : start <= IntOf(x.start) /\ IntOf(x.start) <= end)

Chunk(es, start, end) ==
    SelectIdx(es, LAMBDA x : start <= IntOf(x.start) /\ IntOf(x.start) < end)

\* cursor = end
\* cursor = end replaced by a cursor that stays at the start of the window
NextCursorStay(start, end) == start

NextCursor(start, end) == end

\* while cursor <= last and len(grouped) < max_topics
LoopGuardNoCap(cur, lst, g, mt) == cur <= lst

LoopGuard(cur, lst, g, mt) == cur <= lst /\ Len(g) < mt

\* if not grouped: grouped.append((0, window_seconds, entries[:40]))
Fallback(g, es, ws) ==
    IF g = <<>>
    THEN <<[start |-> 0, end |-> ws,
            chunk |-> [i \in 1..Min(FallbackCap, Len(es)) |-> i]]>>
    ELSE g

\* Lines 330-335: the body of the while loop, from cursor and grouped to
\* their values after the iteration.
LoopBody(es, ws, cur, g) ==
    LET start == cur
        end == start + ws
        chunk == Chunk(es, start, end)
    IN [grouped |-> IF chunk # <<>>
                    THEN Append(g, [start |-> start, end |-> end, chunk |-> chunk])
                    ELSE g,
        cursor |-> NextCursor(start, end)]

\* Lines 329-335: the while loop run to its exit; the value of grouped.
RECURSIVE WinLoop(_, _, _, _, _, _)
WinLoop(es, mt, ws, cur, lst, g) ==
    IF LoopGuard(cur, lst, g, mt)
    THEN WinLoop(es, mt, ws, LoopBody(es, ws, cur, g).cursor, lst,
                 LoopBody(es, ws, cur, g).grouped)
    ELSE g

\* Lines 317-339: _topic_windows as a function of its arguments.
TopicWindows(es, mt, ws) ==
    IF es = <<>> THEN <<>>
    ELSE Fallback(WinLoop(es, mt, ws, IntOf(es[1].start),
                          IntOf(es[Len(es)].start + es[Len(es)].duration), <<>>),
                  es, ws)

\* Lines 323-328: the empty-input return, else the loop's initial state.
TW_Enter ==
    /\ pc = "call"
    /\ IF entries = <<>>
       THEN /\ windows' = <<>>
            /\ pc' = "done"
            /\ UNCHANGED <<cursor, last, grouped>>
       ELSE /\ cursor' = IntOf(entries[1].start)
            /\ last' = IntOf(entries[Len(entries)].start
                             + entries[Len(entries)].duration)
            /\ grouped' = <<>>
            /\ pc' = "loop"
            /\ UNCHANGED windows
    /\ UNCHANGED <<entries, max_topics, window_seconds, iterations, fnVars, apiVars, runVars>>

\* Lines 329-335: one iteration of the while loop.
TW_Iterate ==
    /\ pc = "loop"
    /\ LoopGuard(cursor, last, grouped, max_topics)
    /\ grouped' = LoopBody(entries, window_seconds, cursor, grouped).grouped
    /\ cursor' = LoopBody(entries, window_seconds, cursor, grouped).cursor
    /\ iterations' = iterations + 1
    /\ UNCHANGED <<pc, entries, max_topics, window_seconds, last, windows, fnVars, apiVars, runVars>>

\* Lines 337-339: loop exit, the fallback window, return.
TW_Return ==
    /\ pc = "loop"
    /\ ~LoopGuard(cursor, last, grouped, max_topics)
    /\ windows' = Fallback(grouped, entries, window_seconds)
    /\ pc' = "done"
    /\ UNCHANGED <<entries, max_topics, window_seconds, cursor, last, grouped,
                   iterations, fnVars, apiVars, runVars>>

---------------------------------------------------------------------------
(* Specification SpecDedup: the three deduplication functions on bounded    *)
(* lists of lines.  The lines hold no line break: every caller passes lines *)
(* that _clean_text or str.splitlines produced.                             *)

DedupAlphabet == {"a", "A", " ", "[", "]"}

DedupTexts ==
    {<<>>} \cup { <<x>> : x \in DedupAlphabet }
           \cup { <<x, y>> : x, y \in DedupAlphabet }
           \cup { <<"[", "a", "]">>, <<"a", " ", "[", "A", "]">>,
                  <<" ", "A", " ">>, <<"a", " ", " ", "A">>, <<"A", " ", "a">> }

DedupLineSeqs == UNION { [1..n -> DedupTexts] : n \in 0..MaxLines }

\* The lines as transcript entries and as OCR entries, each with a time of
\* its own (OCR frames are 6 seconds apart, line 230).
AsTranscript(ls) ==
    [i \in 1..Len(ls) |-> TranscriptEntry(ls[i], i * TicksPerSecond, 0)]

AsOcr(ls) == [i \in 1..Len(ls) |-> OcrEntry(ls[i], (i - 1) * 6)]

InitDedup ==
    /\ pc = "dedupe"
    /\ fn_in \in { [lines |-> ls] : ls \in DedupLineSeqs }
    /\ fn_out = <<>>
    /\ WinIdle
    /\ RunIdle
    /\ ApiIdle

\* Each function applied to the lines, and again to what it returned.
ApplyDedupe ==
    /\ pc = "dedupe"
    /\ fn_out' = [unique |-> unique_lines(fn_in.lines),
                  unique2 |-> unique_lines(unique_lines(fn_in.lines)),
                  transcript |-> dedupe_transcript(AsTranscript(fn_in.lines)),
                  transcript2 |->
                      dedupe_transcript(dedupe_transcript(AsTranscript(fn_in.lines))),
                  ocr |-> dedupe_ocr(AsOcr(fn_in.lines)),
                  ocr2 |-> dedupe_ocr(dedupe_ocr(AsOcr(fn_in.lines)))]
    /\ pc' = "deduped"
    /\ UNCHANGED <<fn_in, winVars, runVars, apiVars>>

NextDedup == ApplyDedupe

SpecDedup == InitDedup /\ [][NextDedup]_vars

---------------------------------------------------------------------------
(* Specification SpecCode: _extract_code_candidates on transcripts of up to *)
(* MaxCodeLines entries and OCR results of up to MaxOcrLines entries.       *)

DigitSeq == <<"0", "1", "2", "3", "4", "5", "6", "7", "8", "9">>

\* The identifier f<k>, two digits: one word of three tokens.
Name(k) == <<"f", DigitSeq[((k \div 10) % 10) + 1], DigitSeq[(k % 10) + 1]>>

\* "def f07():", "Def f07():", "int f07 = 0;" and the prose "so f07 flows"
DefText(k) == <<"def", " ">> \o Name(k) \o <<"(", ")", ":">>

DefTextUpper(k) == <<"Def", " ">> \o Name(k) \o <<"(", ")", ":">>

TypedText(k) == <<"int", " ">> \o Name(k) \o <<" ", "=", " ", "0", ";">>

ProseText(k) == <<"so", " ">> \o Name(k) \o <<" ", "flows">>

\* Transcripts of n entries: all code-like and distinct ("code"), or code,
\* its upper-case repeat and prose in turn ("mixed").
CodeTranscript(n, pattern) ==
    [i \in 1..n |->
        TranscriptEntry(
            IF pattern = "code" THEN DefText(i)
            ELSE IF i % 3 = 1 THEN DefText(i)
            ELSE IF i % 3 = 2 THEN DefTextUpper(i - 1)
            ELSE ProseText(i),
            i * TicksPerSecond, TicksPerSecond)]

\* OCR results of n entries: lines of their own ("fresh"), or the last lines
\* of a transcript of nT entries in upper case, last first ("tail").
CodeOcr(n, pattern, nT) ==
    [j \in 1..n |->
        OcrEntry(IF pattern = "fresh" \/ nT - j + 1 < 1 THEN TypedText(j)
                 ELSE DefTextUpper(nT - j + 1),
                 (j - 1) * 6)]

CodeInputs ==
    { [transcript_entries |-> CodeTranscript(nT, pT),
       ocr_entries |-> CodeOcr(nO, pO, nT)] :
        nT \in 0..MaxCodeLines, pT \in {"code", "mixed"},
        nO \in 0..MaxOcrLines, pO \in {"fresh", "tail"} }

InitCode ==
    /\ pc = "extract"
    /\ fn_in \in CodeInputs
    /\ fn_out = <<>>
    /\ WinIdle
    /\ RunIdle
    /\ ApiIdle

\* _extract_code_candidates applied; cleaned is its local of line 253.
ApplyExtract ==
    /\ pc = "extract"
    /\ fn_out' = [cleaned |-> Cleaned(Pool(fn_in.transcript_entries, fn_in.ocr_entries)),
                  snippets |-> extract_code_candidates(fn_in.transcript_entries,
                                                       fn_in.ocr_entries)]
    /\ pc' = "extracted"
    /\ UNCHANGED <<fn_in, winVars, runVars, apiVars>>

NextCode == ApplyExtract

SpecCode == InitCode /\ [][NextCode]_vars

---------------------------------------------------------------------------
(* Specification SpecWin: _topic_windows on bounded inputs *)

EntryInputs ==
    { TranscriptEntry(<<"w">>, s, d) : s \in 0..MaxStartTicks, d \in 0..MaxDurTicks }

EntrySeqs == UNION { [1..n -> EntryInputs] : n \in 0..MaxEntries }

InitWin ==
    /\ pc = "call"
    /\ entries \in EntrySeqs
    /\ max_topics \in 0..MaxTopicsIn
    /\ window_seconds \in 1..MaxWindowIn
    /\ cursor = 0
    /\ last = 0
    /\ grouped = <<>>
    /\ iterations = 0
    /\ windows = <<>>
    /\ FnIdle
    /\ RunIdle
    /\ ApiIdle

NextWin == TW_Enter \/ TW_Iterate \/ TW_Return

SpecWin == InitWin /\ [][NextWin]_vars

---------------------------------------------------------------------------
(* NotesPipeline._collect_raw_data and what it calls *)

\* The source URL as urlparse gives it: the host in lower case, the path
\* stripped of "/" and split at "/", and the first v of the query.
Url(host, path, v) == [host |-> host, path |-> path, v |-> v]

\* "youtu.be" in host and "youtube.com" in host, for the hosts of Urls
HostHasShort(host) == host \in {"youtu.be", "www.youtu.be"}

HostHasLong(host) == host \in {"youtube.com", "www.youtube.com", "m.youtube.com"}

\* NotesPipeline._extract_video_id
extract_video_id(url) ==
    LET invalid == [ok |-> FALSE, id |-> ""]
        second == IF Len(url.path) >= 2 THEN [ok |-> TRUE, id |-> url.path[2]]
                  ELSE invalid
    IN IF HostHasShort(url.host) /\ url.path # <<>>
       THEN [ok |-> TRUE, id |-> url.path[1]]
       ELSE IF HostHasLong(url.host)
       THEN IF url.path = <<"watch">> /\ url.v # ""
            THEN [ok |-> TRUE, id |-> url.v]
            ELSE IF url.path # <<>> /\ url.path[1] \in {"shorts", "embed"}
            THEN second
            ELSE invalid
       ELSE invalid

\* The loop over the fetched items: clean, skip under three words, append.
RECURSIVE EntriesOfItems(_, _)
EntriesOfItems(items, i) ==
    IF i > Len(items) THEN <<>>
    ELSE LET text == clean_text(items[i].text)
         IN (IF WordCount(text) < 3 THEN <<>>
             ELSE <<TranscriptEntry(text, items[i].start, items[i].duration)>>)
            \o EntriesOfItems(items, i + 1)

\* How the transcript library answers: fetch returns the items ("ok"),
\* raises one of NoTranscriptFound, TranscriptsDisabled, VideoUnavailable
\* ("unavailable"), raises something else ("error"), or raises
\* AttributeError ("attribute_error") and then get_transcript answers with
\* legacy: "ok", "unavailable" or "error".
Fetch(kind, legacy, items) == [kind |-> kind, legacy |-> legacy, items |-> items]

TranscriptUnavailable == "Transcript unavailable"

AcquisitionError == "Unable to read transcript"

\* NotesPipeline._fetch_transcript_entries: the entries it returns, the
\* ValueError it raises, or the exception that leaves it as it is.
fetch_transcript_entries(fetch) ==
    LET returned == [status |-> "ok", error |-> "",
                     entries |-> dedupe_transcript(EntriesOfItems(fetch.items, 1))]
        Raised(status, error) == [status |-> status, error |-> error, entries |-> <<>>]
    IN CASE fetch.kind = "ok" -> returned
         [] fetch.kind = "unavailable" -> Raised("ValueError", TranscriptUnavailable)
         [] fetch.kind = "error" -> Raised("ValueError", AcquisitionError)
         [] fetch.kind = "attribute_error" /\ fetch.legacy = "ok" -> returned
         [] fetch.kind = "attribute_error" /\ fetch.legacy = "unavailable" ->
                Raised("raised", "TranscriptsDisabled")
         [] fetch.kind = "attribute_error" /\ fetch.legacy = "error" ->
                Raised("raised", "Exception")

\* NotesPipeline._normalize_ocr_lines
RECURSIVE NonEmptyCleaned(_, _)
NonEmptyCleaned(ls, i) ==
    IF i > Len(ls) THEN <<>>
    ELSE LET cleaned == clean_text(ls[i])
         IN (IF cleaned # <<>> THEN <<cleaned>> ELSE <<>>) \o NonEmptyCleaned(ls, i + 1)

normalize_ocr_lines(text) == unique_lines(NonEmptyCleaned(SplitLines(text), 1))

\* second = idx * 6, the frames being six seconds apart (fps=1/6)
FrameStride == 6

\* -frames:v 24
FrameCap == 24

\* The lines of one frame that have two words or more, as OCR entries.
FrameEntries(ls, idx) ==
    LET kept == SelectIdx(ls, LAMBDA line : WordCount(line) >= 2)
    IN [k \in 1..Len(kept) |-> OcrEntry(ls[kept[k]], idx * FrameStride)]

\* The loop over the frames, idx counting from 0; a frame whose OCR raised
\* is skipped.
RECURSIVE FramesFrom(_, _)
FramesFrom(frames, i) ==
    IF i > Len(frames) THEN <<>>
    ELSE (IF frames[i].raises THEN <<>>
          ELSE FrameEntries(normalize_ocr_lines(frames[i].raw_text), i - 1))
         \o FramesFrom(frames, i + 1)

\* How the OCR tools answer: a tool is missing or a subprocess failed
\* (available FALSE), or ffmpeg wrote these frames.
Ocr(available, frames) == [available |-> available, frames |-> frames]

\* NotesPipeline._extract_ocr_entries
extract_ocr_entries(ocr) ==
    IF ~ocr.available THEN <<>>
    ELSE dedupe_ocr(FramesFrom(Take(ocr.frames, FrameCap), 1))

NoUsableSignal == "Also no OCR text could be extracted"

InvalidSource == "Could not parse a valid YouTube video ID"

\* NotesPipeline._collect_raw_data: the raw output it returns or what it
\* raises, with its locals video_id and transcript_error.
collect_raw_data(url, fetch, ocr) ==
    LET parsed == extract_video_id(url)
        fetched == fetch_transcript_entries(fetch)
        transcript_entries == fetched.entries
        ocr_entries == extract_ocr_entries(ocr)
        Ended(status, error, r) ==
            [status |-> status, error |-> error, raw |-> r,
             video_id |-> parsed.id,
             transcript_error |-> IF fetched.status = "ValueError"
                                  THEN fetched.error ELSE ""]
    IN IF ~parsed.ok
       THEN [status |-> "ValueError", error |-> InvalidSource, raw |-> NoRaw,
             video_id |-> "", transcript_error |-> ""]
       ELSE IF fetched.status = "raised"
       THEN Ended("raised", fetched.error, NoRaw)
       ELSE IF transcript_entries = <<>> /\ ocr_entries = <<>>
       THEN Ended("ValueError", NoUsableSignal, NoRaw)
       ELSE Ended("ok", "",
                  [transcript_entries |-> transcript_entries,
                   ocr_entries |-> ocr_entries,
                   code_snippets |->
                       extract_code_candidates(transcript_entries, ocr_entries)])

---------------------------------------------------------------------------
(* NotesPipeline._topic_title.  re.findall(r"[a-zA-Z]{4,}", ...) gives the  *)
(* maximal runs of letters of four letters or more.  A token made of        *)
(* letters is one run; the tokens of CompositeRuns hold the runs listed; no *)
(* line of the vocabulary has two tokens of letters side by side.           *)

STOP_WORDS ==
    {"the", "a", "an", "and", "or", "to", "of", "in", "for", "is", "are", "this",
     "that", "we", "you", "it", "with", "on", "as", "be", "by", "from", "at"}

\* Tokens without a letter
NoLetterToks ==
    {" ", "\n", "(", ")", "{", "}", "=", ";", "[", "]", ":", ",", ".", "-", "&"}
    \cup DigitToks

\* Tokens with something else than letters, and their runs of letters
CompositeRuns ==
    { <<"board/screen", <<"board", "screen">> >>,
      <<"screen/transcript", <<"screen", "transcript">> >>,
      <<"console.log", <<"console", "log">> >>,
      <<"#include", <<"include">> >> }

\* The runs of letters of one token of line.lower()
LetterRuns(tok) ==
    IF tok \in NoLetterToks THEN <<>>
    ELSE IF \E c \in CompositeRuns : c[1] = tok
    THEN (CHOOSE c \in CompositeRuns : c[1] = tok)[2]
    ELSE <<tok>>

\* re.findall(r"[a-zA-Z]{4,}", line.lower()), from token i
RECURSIVE FindWords(_, _)
FindWords(line, i) ==
    IF i > Len(line) THEN <<>>
    ELSE SelectSeq(LetterRuns(LowerTok(line[i])), LAMBDA w : Len(w) >= 4)
         \o FindWords(line, i + 1)

\* words, lines 342-344
RECURSIVE TitleWords(_, _)
TitleWords(ls, i) ==
    IF i > Len(ls) THEN <<>>
    ELSE FindWords(ls[i], 1) \o TitleWords(ls, i + 1)

\* freq, lines 345-349: the keys in insertion order, each with its count
RECURSIVE FreqFrom(_, _, _)
FreqFrom(words, i, freq) ==
    IF i > Len(words) THEN freq
    ELSE IF words[i] \in STOP_WORDS THEN FreqFrom(words, i + 1, freq)
    ELSE IF \E k \in 1..Len(freq) : freq[k][1] = words[i]
    THEN FreqFrom(words, i + 1,
                  [k \in 1..Len(freq) |->
                      IF freq[k][1] = words[i] THEN <<freq[k][1], freq[k][2] + 1>>
                      ELSE freq[k]])
    ELSE FreqFrom(words, i + 1, Append(freq, <<words[i], 1>>))

\* sorted(...) that puts an item in front of the items of the same count
SortedInsertFront(sorted, item) ==
    LET n == Len(SelectSeq(sorted, LAMBDA x : x[2] > item[2]))
    IN SubSeq(sorted, 1, n) \o <<item>> \o SubSeq(sorted, n + 1, Len(sorted))

\* sorted(items, key=count, reverse=True): insertion of item into a list
\* sorted by falling count, behind the items of the same count (stable)
SortedInsert(sorted, item) ==
    LET n == Len(SelectSeq(sorted, LAMBDA x : x[2] >= item[2]))
    IN SubSeq(sorted, 1, n) \o <<item>> \o SubSeq(sorted, n + 1, Len(sorted))

RECURSIVE SortedByCount(_, _, _)
SortedByCount(items, i, sorted) ==
    IF i > Len(items) THEN sorted
    ELSE SortedByCount(items, i + 1, SortedInsert(sorted, items[i]))

\* [:2]
TopCap == 2

\* str.capitalize() of a lower-case word
Capitalize(w) ==
    IF \E p \in CapPairs : p[1] = w THEN (CHOOSE p \in CapPairs : p[1] = w)[2] ELSE w

\* " & ".join(labels)
RECURSIVE JoinLabels(_)
JoinLabels(labels) ==
    IF labels = <<>> THEN <<>>
    ELSE IF Len(labels) = 1 THEN <<labels[1]>>
    ELSE <<labels[1], " ", "&", " ">> \o JoinLabels(Tail(labels))

\* str(index), for the indexes of a run
IndexStr(index) == <<DigitSeq[index + 1]>>

\* NotesPipeline._topic_title
topic_title(ls, index, lang) ==
    LET freq == FreqFrom(TitleWords(ls, 1), 1, <<>>)
        top == Take(SortedByCount(freq, 1, <<>>), TopCap)
        labels == IF top = <<>> THEN <<"Section", " ">> \o IndexStr(index)
                  ELSE JoinLabels([k \in 1..Len(top) |-> Capitalize(top[k][1])])
        base == <<"Topic", " ">> \o IndexStr(index) \o <<":", " ">> \o labels
    IN IF lang = "hinglish" THEN base \o <<" ", "Concept">> ELSE base

---------------------------------------------------------------------------
(* NotesPipeline._structure_notes.  A topic note is modelled with its     *)
(* topic_name, explanation, screen_content, formulas_or_diagrams and        *)
(* code_sections; diagram and the line_by_line of a code block are left    *)
(* out.                                                                    *)

\* _structure_notes calls _topic_windows with these
StructureMaxTopics == 5

StructureWindowSeconds == 90

\* max_points=6
MaxPoints == 6

\* self._unique_lines(ocr_lines)[:6]
ScreenCap == 6

\* duration=6.0 of an entry made from an OCR entry
SyntheticDuration == 6

FallbackSentence ==
    <<"No", " ", "clear", " ", "board/screen", " ", "text", " ", "was", " ",
      "detected", " ", "in", " ", "this", " ", "segment", ".">>

\* base_entries without the entries made of the OCR entries
BaseEntriesTranscriptOnly(r) == r.transcript_entries

\* base_entries: the transcript entries, or entries made of the OCR entries
BaseEntries(r) ==
    IF r.transcript_entries = <<>> /\ r.ocr_entries # <<>>
    THEN [k \in 1..Len(r.ocr_entries) |->
            TranscriptEntry(r.ocr_entries[k].text,
                            r.ocr_entries[k].second * TicksPerSecond,
                            SyntheticDuration * TicksPerSecond)]
    ELSE r.transcript_entries

\* OcrPositions without the test against the start of the window
OcrPositionsUpToEnd(r, start, end) ==
    SelectIdx(r.ocr_entries, LAMBDA x : x.second <= end)

\* The positions in raw.ocr_entries of the entries ocr_lines is made of.
OcrPositions(r, start, end) ==
    SelectIdx(r.ocr_entries, LAMBDA x : start <= x.second /\ x.second <= end)

\* screen_content before it is formatted for the note
ScreenContentOnce(ocr_lines) ==
    LET unique == Take(unique_lines(ocr_lines), ScreenCap)
    IN IF unique = <<>> THEN <<FallbackSentence>> ELSE unique

ScreenContent(ocr_lines, lang, sty) ==
    LET unique == Take(unique_lines(ocr_lines), ScreenCap)
    IN IF unique = <<>> THEN <<format_text(FallbackSentence, lang, sty)>> ELSE unique

\* topic_code with the global snippets given to every window
TopicCodeEveryWindow(index, r, ocr_lines) ==
    LET first == r.code_snippets
        coded == SelectIdx(ocr_lines, LAMBDA line : looks_code(line))
    IN IF coded # <<>>
       THEN Append(first, JoinLines([k \in 1..Len(coded) |-> ocr_lines[coded[k]]]))
       ELSE first

\* topic_code
TopicCode(index, r, ocr_lines) ==
    LET first == IF index = 1 /\ r.code_snippets # <<>> THEN r.code_snippets ELSE <<>>
        coded == SelectIdx(ocr_lines, LAMBDA line : looks_code(line))
    IN IF coded # <<>>
       THEN Append(first, JoinLines([k \in 1..Len(coded) |-> ocr_lines[coded[k]]]))
       ELSE first

\* One pass of the loop over the windows, but for the rewrite: the note of
\* window index with the bullets of _to_points as its explanation.
TopicDraft(index, window, base_entries, r, lang, sty) ==
    LET chunk_lines == [k \in 1..Len(window.chunk) |-> base_entries[window.chunk[k]].text]
        positions == OcrPositions(r, window.start, window.end)
        ocr_lines == [k \in 1..Len(positions) |-> r.ocr_entries[positions[k]].text]
        screen_content == ScreenContent(ocr_lines, lang, sty)
        formulas == extract_formula_like_lines(chunk_lines \o ocr_lines)
    IN [positions |-> positions,
        note |-> [index |-> index,
                  topic_name |-> topic_title(chunk_lines, index, lang),
                  explanation |-> to_points(chunk_lines, MaxPoints, lang, sty),
                  screen_content |->
                      [k \in 1..Len(screen_content) |->
                          format_text(screen_content[k], lang, sty)],
                  formulas_or_diagrams |->
                      [k \in 1..Len(formulas) |-> format_text(formulas[k], lang, sty)],
                  code_sections |->
                      build_code_blocks(TopicCode(index, r, ocr_lines), lang, sty)]]

---------------------------------------------------------------------------
(* Specification SpecClassify: the two code classifiers on bounded lines *)

ClassifyAlphabet == {"import", " ", "x", "=", ";", "int", "def", "{", "Return", "0"}

MaxLineToks == 3

RECURSIVE TokSeqs(_, _)
TokSeqs(alphabet, n) ==
    IF n = 0 THEN { <<>> }
    ELSE LET shorter == TokSeqs(alphabet, n - 1)
         IN shorter \cup { Append(t, a) : t \in { u \in shorter : Len(u) = n - 1 },
                                          a \in alphabet }

\* Every line of up to MaxLineToks tokens and some longer ones.
ClassifyLines ==
    TokSeqs(ClassifyAlphabet, MaxLineToks)
    \cup { TypedText(1), DefText(1), ProseText(1),
           <<"#include", " ", "x">>, <<" ", "#include">>, <<"x", " ", "#include">>,
           <<"INT", " ", " ", "MAIN", "(", ")">>, <<"Return", " ", "0", "1", ";", " ", "x">>,
           <<"for", "(", "x", ")">>, <<"while", " ", "(">>, <<"x", " ", "if", " ", "(">>,
           <<"console.log", "(", "x", ")">>, <<" ", "}", " ">>, <<"x", " ", "}">>,
           <<"Import", " ", "x", " ", "x">>, <<"x", " ", "=", " ", "0", ";", " ">>,
           <<"so", " ", "x", " ", "=", " ", "x">> }

InitClassify ==
    /\ pc = "classify"
    /\ fn_in \in ClassifyLines
    /\ fn_out = <<>>
    /\ WinIdle
    /\ RunIdle
    /\ ApiIdle

\* Both classifiers applied to the line.
ApplyClassify ==
    /\ pc = "classify"
    /\ fn_out' = [code_like |-> code_like(fn_in), looks_code |-> looks_code(fn_in)]
    /\ pc' = "classified"
    /\ UNCHANGED <<fn_in, winVars, runVars, apiVars>>

NextClassify == ApplyClassify

SpecClassify == InitClassify /\ [][NextClassify]_vars

---------------------------------------------------------------------------
(* Specification Spec: one run of the pipeline, from the request to the     *)
(* notes or the exception                                                    *)

Urls ==
    { Url("youtu.be", <<"vid1">>, ""),
      Url("youtu.be", <<>>, ""),
      Url("www.youtube.com", <<"watch">>, "vid1"),
      Url("www.youtube.com", <<"watch">>, ""),
      Url("www.youtube.com", <<"shorts", "vid1">>, ""),
      Url("m.youtube.com", <<"embed", "vid1">>, ""),
      Url("www.youtube.com", <<"embed">>, ""),
      Url("example.com", <<"watch">>, "vid1") }

Languages == {"english", "hinglish"}

Styles == {"simple", "exam"}

\* Caption texts as the library gives them, before cleaning.
ProseRaw(i) ==
    <<"[", "Music", "]", "\n", "This", " ", "is", " ", "point", " ">> \o Name(i)
    \o <<" ", "for", "\n", "revision">>

ProseRepeat(i) ==
    <<"this", " ", "is", " ", "point", " ">> \o Name(i) \o <<" ", "for", " ", "revision">>

FormulaRaw(i) ==
    <<"Voltage", " ">> \o Name(i) \o <<" ", "=", " ", "current", " ", "times", " ", "r">>

ShortRaw == <<"ok", " ", "then">>

\* Two captions whose words differ in how often they occur, then code.
TitledRaw(i) ==
    IF i % 3 = 1
    THEN <<"current", " ", "revision", " ", "of", " ", "Voltage", " ", "and", " ",
           "voltage">>
    ELSE IF i % 3 = 2
    THEN <<"this", " ", "Revision", " ", "point", " ", "voltage", " ", "with", " ",
           "point">>
    ELSE TypedText(i)

ItemText(i, pattern) ==
    IF pattern = "prose" THEN ProseRaw(i)
    ELSE IF pattern = "formula" THEN FormulaRaw(i)
    ELSE IF pattern = "titled" THEN TitledRaw(i)
    ELSE IF i % 4 = 1 THEN ProseRaw(i)
    ELSE IF i % 4 = 2 THEN ProseRepeat(i - 1)
    ELSE IF i % 4 = 3 THEN TypedText(i)
    ELSE ShortRaw

\* Captions one tick apart ("dense"), a little over half a window apart
\* ("mid") or a window apart ("sparse").
Gap(spacing) ==
    IF spacing = "dense" THEN 1
    ELSE IF spacing = "mid" THEN (StructureWindowSeconds \div 2) * TicksPerSecond + 1
    ELSE StructureWindowSeconds * TicksPerSecond

MaxItems == 7

TranscriptItems(n, spacing, pattern) ==
    [i \in 1..n |-> [text |-> ItemText(i, pattern),
                     start |-> (i - 1) * Gap(spacing),
                     duration |-> TicksPerSecond]]

\* What OCR reads off frame j.
BoardRaw(j) ==
    <<"force", " ", "=", " ", "mass", " ">> \o Name(j)
    \o <<"\n", "X", "\n", "Force", " ", "=", " ", "mass", " ">> \o Name(j)
    \o <<"\n", "[", "Music", "]", " ", "board", "\n">>
    \o <<"force", " ", "=", " ", "mass", " ">> \o Name(1)

CodeRaw(j) ==
    TypedText(j) \o <<"\n">> \o TypedText(10 + j) \o <<"\n">> \o TypedText(20 + j)
    \o <<"\n">> \o TypedText(30 + j) \o <<"\n">> \o TypedText(40 + j)
    \o <<"\n", "}">>

MaxFrames == 2

\* The frame at which the "late" frames start: 14 * 6 = 84 seconds
LateStartFrame == 14

\* m frames with text, from the first frame on ("early") or after
\* LateStartFrame frames without text, every other one failing in OCR.
OcrFrames(m, when, pattern) ==
    LET lead == IF when = "late" THEN LateStartFrame ELSE 0
    IN [i \in 1..(lead + m) |->
          IF i <= lead THEN [raises |-> i % 2 = 1, raw_text |-> <<>>]
          ELSE [raises |-> FALSE,
                raw_text |-> IF pattern = "board" THEN BoardRaw(i - lead)
                             ELSE CodeRaw(i - lead)]]

\* A video: its captions and what the OCR tools make of it.
Video(items, ocr) == [items |-> items, ocr |-> ocr]

Captions ==
    { TranscriptItems(0, "dense", "prose"),
      TranscriptItems(1, "dense", "prose"),
      TranscriptItems(3, "mid", "prose"),
      TranscriptItems(3, "mid", "titled"),
      TranscriptItems(MaxItems, "dense", "prose"),
      TranscriptItems(MaxItems, "dense", "formula"),
      TranscriptItems(MaxItems, "mid", "mixed"),
      TranscriptItems(MaxItems, "sparse", "prose") }

FramesRead ==
    { <<>> } \cup { OcrFrames(MaxFrames, when, pattern) :
                      when \in {"early", "late"}, pattern \in {"board", "code"} }

\* The videos of the runs: every caption track without OCR, tracks of
\* no and of three captions with every OCR reading, and two long tracks
\* with code on the screen.
Videos ==
    { Video(items, Ocr(FALSE, <<>>)) : items \in Captions }
    \cup { Video(items, Ocr(TRUE, frames)) :
             items \in {<<>>, TranscriptItems(3, "mid", "prose")},
             frames \in FramesRead }
    \cup { Video(items, Ocr(TRUE, OcrFrames(MaxFrames, "early", "code"))) :
             items \in {TranscriptItems(MaxItems, "mid", "mixed"),
                        TranscriptItems(MaxItems, "dense", "formula")} }

FetchKinds ==
    { <<"ok", "">>, <<"unavailable", "">>, <<"error", "">>,
      <<"attribute_error", "ok">>, <<"attribute_error", "unavailable">>,
      <<"attribute_error", "error">> }

Init ==
    /\ pc = "request"
    /\ WinIdle
    /\ FnIdle
    /\ RunIdle
    /\ ApiIdle

\* run, line 84: _collect_raw_data returns raw or raises.
CollectRawData ==
    /\ pc = "request"
    /\ \E url \in Urls, lang \in Languages, sty \in Styles,
          kind \in FetchKinds, video \in Videos :
          LET collected == collect_raw_data(url, Fetch(kind[1], kind[2], video.items),
                                            video.ocr)
          IN /\ language' = lang
             /\ style' = sty
             /\ video_id' = collected.video_id
             /\ transcript_error' = collected.transcript_error
             /\ raw' = collected.raw
             /\ sources' =
                   IF ~extract_video_id(url).ok THEN NoSources
                   ELSE LET fetched == fetch_transcript_entries(
                                           Fetch(kind[1], kind[2], video.items))
                        IN Sources(fetched.status # "ok", Len(fetched.entries),
                                   Len(extract_ocr_entries(video.ocr)))
             /\ IF collected.status = "ok"
                THEN pc' = "structure" /\ result' = result
                ELSE /\ pc' = "done"
                     /\ result' = [status |-> collected.status,
                                   error |-> collected.error]
    /\ UNCHANGED <<winVars, fnVars, apiVars, llm_config, topics, gathered>>

\* _structure_notes up to its loop: base_entries and the windows; the
\* settings and the client library are fixed from here on.
StructureEnter ==
    /\ pc = "structure"
    /\ entries' = BaseEntries(raw)
    /\ max_topics' = StructureMaxTopics
    /\ window_seconds' = StructureWindowSeconds
    /\ windows' = TopicWindows(entries', max_topics', window_seconds')
    /\ llm_config' \in LlmConfigs
    /\ topics' = <<>>
    /\ gathered' = <<>>
    /\ pc' = "topics"
    /\ UNCHANGED <<cursor, last, grouped, iterations, fnVars, apiVars, language, style,
                   video_id, transcript_error, raw, sources, result>>

\* One pass of the loop of _structure_notes.
StructureTopic ==
    /\ pc = "topics"
    /\ Len(topics) < Len(windows)
    /\ LET index == Len(topics) + 1
           draft == TopicDraft(index, windows[index], entries, raw, language, style)
       IN \E rewrite \in { llm_rewrite_points(draft.note.explanation, llm_config,
                                              response) : response \in Responses } :
               IF rewrite.raised
               THEN /\ pc' = "done"
                    /\ result' = [status |-> "raised", error |-> "OpenAI"]
                    /\ UNCHANGED <<topics, gathered>>
               ELSE /\ topics' = Append(topics, [draft.note EXCEPT
                                                   !.explanation = rewrite.points])
                    /\ gathered' = Append(gathered, draft.positions)
                    /\ UNCHANGED <<pc, result>>
    /\ UNCHANGED <<winVars, fnVars, apiVars, language, style, video_id, transcript_error,
                   raw, llm_config, sources>>

\* _structure_notes, line 315, and the return of run
StructureReturn ==
    /\ pc = "topics"
    /\ Len(topics) = Len(windows)
    /\ pc' = "done"
    /\ result' = [status |-> "notes", error |-> ""]
    /\ UNCHANGED <<winVars, fnVars, apiVars, language, style, video_id, transcript_error,
                   raw, llm_config, topics, gathered, sources>>

Next == CollectRawData \/ StructureEnter \/ StructureTopic \/ StructureReturn

Spec == Init /\ [][Next]_vars

\* SpecWin with the call running on: _topic_windows is sequential code, so
\* a step that can be taken is taken.
SpecWinLive == InitWin /\ [][NextWin]_vars /\ WF_vars(NextWin)

---------------------------------------------------------------------------
(* The HTTP handlers of backend/app/api/routes.py and the module-level      *)
(* EXPORT_INDEX.  A value of uuid4().hex is modelled by its rank among the  *)
(* values drawn so far: uuid4 is taken to give a value it has not given     *)
(* before.  A path export_dir / "<uuid>.<ext>" is the record of its uuid    *)
(* and its extension.  The pipeline run of a request is drawn from the ways *)
(* NotesPipeline.run ends (result.status of Spec).                          *)

\* the handlers answer at most MaxRequests requests
MaxRequests == 4

RunOutcomes == {"notes", "ValueError", "raised"}

\* the writers of exporters.py, in the order process_video calls them
Writers == <<[fmt |-> "markdown", ext |-> "md"],
             [fmt |-> "docx", ext |-> "docx"],
             [fmt |-> "pdf", ext |-> "pdf"]>>

\* the formats and note ids a download is asked with
Fmts == {"markdown", "pdf", "PDF", "Docx", "txt"}

RequestedIds == 0..5

\* the n-th value of uuid4().hex after u values were drawn
Uuid4(u, n) == u + n

\* write_markdown, write_docx, write_pdf: the path the k-th writer returns
\* when note_id took the first uuid of the request
WrittenPath(u, k) == [ext |-> Writers[k].ext, uuid |-> Uuid4(u, k + 1)]

\* lines 40-44: the file map of a note
FileMap(u) ==
    [fmt \in {Writers[k].fmt : k \in 1..Len(Writers)} |->
        WrittenPath(u, CHOOSE k \in 1..Len(Writers) : Writers[k].fmt = fmt)]

\* EXPORT_INDEX[note_id] = file_map, and the same dropping every other entry
StoreAlone(index, note_id, file_map) == note_id :> file_map

Store(index, note_id, file_map) == (note_id :> file_map) @@ index

\* a request and its answer: the operation, how its pipeline run ended (for
\* a process request), the status code, and the note, format and file named
Answer(op, run, status, note_id, fmt, path) ==
    [op |-> op, run |-> run, status |-> status, note_id |-> note_id, fmt |-> fmt,
     path |-> path]

\* POST /process.  run is how NotesPipeline().run ended; written is the
\* number of writers that returned before one raised (Len(Writers): none
\* raised).  An exception no handler catches is answered with status 500.
process_video(run, written) ==
    /\ Len(served) < MaxRequests
    /\ IF run = "ValueError"
       THEN /\ last_response' = Answer("process", run, 400, 0, "", NoPath)
            /\ UNCHANGED <<EXPORT_INDEX, uuids, files>>
       ELSE IF run = "raised"
       THEN /\ last_response' = Answer("process", run, 500, 0, "", NoPath)
            /\ UNCHANGED <<EXPORT_INDEX, uuids, files>>
       ELSE LET note_id == Uuid4(uuids, 1)
            IN  /\ files' = files \cup {WrittenPath(uuids, k) : k \in 1..written}
                /\ IF written = Len(Writers)
                   THEN /\ EXPORT_INDEX' = Store(EXPORT_INDEX, note_id, FileMap(uuids))
                        /\ uuids' = uuids + 1 + Len(Writers)
                        /\ last_response' = Answer("process", run, 200, note_id, "", NoPath)
                   ELSE /\ uuids' = uuids + 1 + written + 1
                        /\ last_response' = Answer("process", run, 500, 0, "", NoPath)
                        /\ UNCHANGED EXPORT_INDEX
    /\ served' = Append(served, last_response'.status)
    /\ UNCHANGED <<pc, winVars, fnVars, runVars>>

\* GET /export/{fmt}/{note_id}
download_export(fmt, note_id) ==
    /\ Len(served) < MaxRequests
    /\ last_response' =
          IF note_id \notin DOMAIN EXPORT_INDEX
          THEN Answer("download", "", 404, note_id, fmt, NoPath)
          ELSE LET file_map == EXPORT_INDEX[note_id]
                   lowered == LowerTok(fmt)
               IN  IF lowered \notin DOMAIN file_map
                   THEN Answer("download", "", 404, note_id, fmt, NoPath)
                   ELSE IF file_map[lowered] \notin files
                   THEN Answer("download", "", 404, note_id, fmt, file_map[lowered])
                   ELSE Answer("download", "", 200, note_id, fmt, file_map[lowered])
    /\ served' = Append(served, last_response'.status)
    /\ UNCHANGED <<pc, winVars, fnVars, runVars, EXPORT_INDEX, uuids, files>>

\* The export directory is on disk: a file written there can be gone by
\* the time it is asked for (line 69 tests file_path.exists()).
ExportFileGone ==
    /\ \E note_id \in DOMAIN EXPORT_INDEX :
          /\ EXPORT_INDEX[note_id]["pdf"] \in files
          /\ files' = files \ {EXPORT_INDEX[note_id]["pdf"]}
    /\ UNCHANGED <<pc, winVars, fnVars, runVars, EXPORT_INDEX, uuids, served, last_response>>

InitApi ==
    /\ pc = "serving"
    /\ WinIdle
    /\ FnIdle
    /\ RunIdle
    /\ ApiIdle

ProcessVideo == \E run \in RunOutcomes, written \in 0..Len(Writers) : process_video(run, written)

DownloadExport == \E fmt \in Fmts, note_id \in RequestedIds : download_export(fmt, note_id)

NextApi == ProcessVideo \/ DownloadExport \/ ExportFileGone

SpecApi == InitApi /\ [][NextApi]_vars

---------------------------------------------------------------------------
(* Claims about _topic_windows *)

\* The stepwise loop and the function agree (a check of the model itself).
StepwiseAgrees == pc = "done" => windows = TopicWindows(entries, max_topics, window_seconds)

\* entries is ordered by start time
IsOrdered(es) == \A i \in 1..Len(es) - 1 : es[i].start <= es[i + 1].start

Returned == pc = "done" /\ entries # <<>>

\* m.start lies in [w.start, w.end), w's bounds being whole seconds
MemberInWindow(w, m) ==
    /\ w.start * TicksPerSecond <= entries[m].start
    /\ entries[m].start < w.end * TicksPerSecond

AllMembersInWindow ==
    \A k \in 1..Len(windows) :
        \A j \in 1..Len(windows[k].chunk) :
            MemberInWindow(windows[k], windows[k].chunk[j])

\* C1 as stated: on a non-empty, start-ordered entry sequence every member m
\* of every returned window (start, end, members) has start <= m.start < end.
C1_Original == (Returned /\ IsOrdered(entries)) => AllMembersInWindow

\* C1 amended: the same, for max_topics >= 1 (with max_topics = 0 the loop
\* never runs and the fallback window (0, window_seconds) holds the first
\* entries whatever their start).
C1_MembersInWindow ==
    (Returned /\ IsOrdered(entries) /\ max_topics >= 1) => AllMembersInWindow

\* C1 witness: an ordered input gave two windows, the second holding an entry
\* whose start is not a whole second.
C1_Witness ==
    /\ Returned /\ IsOrdered(entries) /\ max_topics >= 1
    /\ Len(windows) = 2
    /\ \E j \in 1..Len(windows[2].chunk) :
          entries[windows[2].chunk[j]].start % TicksPerSecond # 0

\* C2: the returned windows are in strictly increasing start order and do
\* not overlap (each window ends no later than the next one starts), and no
\* entry is a member of two returned windows.
C2_OrderedDisjoint ==
    Returned =>
        /\ \A k \in 1..Len(windows) - 1 :
              /\ windows[k].start < windows[k + 1].start
              /\ windows[k].end <= windows[k + 1].start
        /\ \A k1, k2 \in 1..Len(windows) :
              k1 # k2 =>
                  \A j1 \in 1..Len(windows[k1].chunk) :
                      \A j2 \in 1..Len(windows[k2].chunk) :
                          windows[k1].chunk[j1] # windows[k2].chunk[j2]

\* C2 witness: two windows were returned and an entry starts exactly at the
\* second where the first window ends.
C2_Witness ==
    /\ Returned
    /\ Len(windows) = 2
    /\ \E i \in 1..Len(entries) :
          entries[i].start = windows[1].end * TicksPerSecond

\* C3 as stated: for any non-empty entry sequence and any max_topics the
\* number of returned windows never exceeds max_topics.
C3_Original == Returned => Len(windows) <= max_topics

\* C3 amended: the same, for max_topics >= 1 (with max_topics = 0 the
\* fallback still emits its one window).
C3_AtMostMaxTopics == (Returned /\ max_topics >= 1) => Len(windows) <= max_topics

\* C3 witness: the loop stopped because max_topics windows were emitted while
\* the cursor had not yet passed the end of the signal.
C3_Witness ==
    /\ Returned
    /\ max_topics >= 2
    /\ Len(windows) = max_topics
    /\ cursor <= last

---------------------------------------------------------------------------
(* Claims about the Deduplicator *)

\* The elements of a finite set of integers, in increasing order.
RECURSIVE SortedSeq(_)
SortedSeq(S) ==
    IF S = {} THEN <<>>
    ELSE LET m == CHOOSE x \in S : \A y \in S : x <= y
         IN <<m>> \o SortedSeq(S \ {m})

\* The case-insensitive text key of a line and of an entry.
TextKey(line) == Lower(clean_text(line))

\* The positions of ls holding the first occurrence of a key, in order.
FirstOccurrences(ls, Key(_)) ==
    SortedSeq({ i \in 1..Len(ls) : \A j \in 1..(i - 1) : Key(ls[j]) # Key(ls[i]) })

\* s keeps exactly the elements of ls at the positions idx, in that order.
KeepsExactly(s, ls, idx, Image(_)) ==
    s = [k \in 1..Len(idx) |-> Image(ls[idx[k]])]

---------------------------------------------------------------------------
(* Claims about _extract_code_candidates *)

\* C7: _extract_code_candidates returns at most 2 groups and no returned
\* group has more than 8 lines.
C7_GroupBounds ==
    pc = "extracted" =>
        /\ Len(fn_out.snippets) <= 2
        /\ \A g \in 1..Len(fn_out.snippets) :
              Len(SplitLines(fn_out.snippets[g])) <= 8

\* C7 witness: more than 16 candidate lines, returned as two groups of 8.
C7_Witness ==
    /\ pc = "extracted"
    /\ Len(fn_out.cleaned) > 16
    /\ Len(fn_out.snippets) = 2
    /\ Len(SplitLines(fn_out.snippets[1])) = 8
    /\ Len(SplitLines(fn_out.snippets[2])) = 8

\* The texts of the code-like entries of a list, in entry order.
CodeLikeTexts(es) ==
    LET C == SelectSeq(es, LAMBDA e : code_like(e.text))
    IN [i \in 1..Len(C) |-> C[i].text]

\* The case-insensitive deduplication of a list of lines: the normalized
\* first occurrence of each key, in order.
DedupOf(ls) ==
    LET nonEmpty == SelectSeq(ls, LAMBDA l : clean_text(l) # <<>>)
        idx == FirstOccurrences(nonEmpty, TextKey)
    IN [k \in 1..Len(idx) |-> clean_text(nonEmpty[idx[k]])]

\* The positions of the pool holding the key.
PoolPositions(key) ==
    { p \in 1..Len(fn_out.cleaned) : Lower(fn_out.cleaned[p]) = key }

\* The keys of the code-like lines present in both the transcript and the
\* OCR entries.
SharedKeys ==
    { TextKey(l) : l \in { CodeLikeTexts(fn_in.transcript_entries)[i] :
                             i \in 1..Len(CodeLikeTexts(fn_in.transcript_entries)) } }
    \cap
    { TextKey(l) : l \in { CodeLikeTexts(fn_in.ocr_entries)[i] :
                             i \in 1..Len(CodeLikeTexts(fn_in.ocr_entries)) } }

\* The place of a key among the distinct code-like transcript lines.
TranscriptRank(key) ==
    LET D == DedupOf(CodeLikeTexts(fn_in.transcript_entries))
    IN CHOOSE k \in 1..Len(D) : Lower(D[k]) = key

PoolIsCappedDedup ==
    fn_out.cleaned =
        SubSeq(DedupOf(CodeLikeTexts(fn_in.transcript_entries)
                       \o CodeLikeTexts(fn_in.ocr_entries)),
               1,
               Min(20, Len(DedupOf(CodeLikeTexts(fn_in.transcript_entries)
                                   \o CodeLikeTexts(fn_in.ocr_entries)))))

\* C9 as stated: the pool is the first 20 lines of the case-insensitive
\* deduplication of the code-like transcript texts followed by the code-like
\* OCR texts, and a code-like line present in both the transcript and the OCR
\* entries is in the pool exactly once, at the place of its transcript
\* occurrence.
C9_Original ==
    pc = "extracted" =>
        /\ PoolIsCappedDedup
        /\ \A key \in SharedKeys : PoolPositions(key) = {TranscriptRank(key)}

\* C9 amended: the same, the shared line being in the pool exactly once at the
\* place of its transcript occurrence when that place is among the first 20,
\* and not at all otherwise.
C9_PoolCappedDedup ==
    pc = "extracted" =>
        /\ PoolIsCappedDedup
        /\ \A key \in SharedKeys :
              PoolPositions(key) =
                  IF TranscriptRank(key) <= 20 THEN {TranscriptRank(key)} ELSE {}

\* C9 witness: a line of the transcript that the OCR entries repeat in another
\* case is in the pool at its transcript place, not the first, and a line
\* only the OCR entries hold follows the transcript's lines.
C9_Witness ==
    /\ pc = "extracted"
    /\ \E key \in SharedKeys :
          /\ TranscriptRank(key) >= 2
          /\ PoolPositions(key) = {TranscriptRank(key)}
    /\ Len(fn_out.cleaned) > Len(DedupOf(CodeLikeTexts(fn_in.transcript_entries)))


---------------------------------------------------------------------------
(* Claims about a run *)

RunReturned == pc = "done" /\ result.status = "notes"

\* The run ended in _collect_raw_data with the no-usable-signal error.
FailedNoUsableSignal ==
    pc = "done" /\ result = [status |-> "ValueError", error |-> NoUsableSignal]

\* The run ended because the rewrite let an exception through.
RewriteRaised == pc = "done" /\ result = [status |-> "raised", error |-> "OpenAI"]

\* The source URL resolved to a video id and _collect_raw_data is over.
Collected == pc # "request" /\ video_id # ""

\* C4 (as stated): for a source URL that resolves to a video id, the run
\* fails with the no-usable-signal error exactly when the transcript
\* entries and the OCR entries are both empty, and when only the transcript
\* acquisition failed and OCR gives an entry the run does not fail in
\* collecting: it goes on to the notes.
C4_Original ==
    Collected =>
        /\ FailedNoUsableSignal <=>
              (sources.transcript_entries = 0 /\ sources.ocr_entries = 0)
        /\ (sources.transcript_failed /\ sources.ocr_entries > 0) =>
              (pc = "done" => RunReturned \/ RewriteRaised)

\* C5 (as stated): the rewrite never aborts a run: whatever fails in the
\* rewrite collaborator, a run that got past collecting returns notes.
C5_Original == pc = "done" /\ raw # NoRaw => RunReturned

\* The OCR lines of the window of topic k.
OcrLinesOf(k) == [j \in 1..Len(gathered[k]) |-> raw.ocr_entries[gathered[k][j]].text]

\* The transcript lines of the window of topic k.
ChunkLinesOf(k) == [j \in 1..Len(windows[k].chunk) |-> entries[windows[k].chunk[j]].text]

\* C8: every topic note has at most 6 explanation bullets, and no more than
\* the bullet extraction gave, rewritten or not; at most 6
\* formulas_or_diagrams entries; and at most 3 code_sections.
C8_NoteCaps ==
    \A k \in 1..Len(topics) :
        /\ Len(topics[k].explanation) <= 6
        /\ Len(topics[k].explanation)
             <= Len(to_points(ChunkLinesOf(k), MaxPoints, language, style))
        /\ Len(topics[k].formulas_or_diagrams) <= 6
        /\ Len(topics[k].code_sections) <= 3

\* A returned note of a window of more than 6 transcript lines, all of them
\* bullets and formula-like, with 6 rewritten bullets, 6 formulas and 3
\* code blocks.
C8_Witness ==
    /\ RunReturned
    /\ llm_config = "ok"
    /\ Len(windows[1].chunk) > 6
    /\ Len(topics[1].explanation) = 6
    /\ \A j \in 1..6 : topics[1].explanation[j][1] = "-"
    /\ Len(topics[1].formulas_or_diagrams) = 6
    /\ Len(topics[1].code_sections) = 3

\* How many times sub occurs in text.
RECURSIVE CountFrom(_, _, _)
CountFrom(text, sub, i) ==
    IF i + Len(sub) - 1 > Len(text) THEN 0
    ELSE (IF SubSeq(text, i, i + Len(sub) - 1) = sub THEN 1 ELSE 0)
         + CountFrom(text, sub, i + 1)

\* C10 (as stated): every string of a note's screen_content is the Style
\* Formatter applied once to a deduplicated OCR line of the window or, when
\* the window has no OCR lines, to the fallback sentence, and in exam style
\* it carries the prefix "Exam focus: " exactly once.
C10_Original ==
    \A k \in 1..Len(topics) :
        LET once == ScreenContentOnce(OcrLinesOf(k))
        IN /\ topics[k].screen_content =
                 [j \in 1..Len(once) |-> format_text(once[j], language, style)]
           /\ style = "exam" =>
                 \A j \in 1..Len(topics[k].screen_content) :
                     CountFrom(topics[k].screen_content[j], ExamPrefix, 1) = 1

---------------------------------------------------------------------------
(* Claims about the classifiers *)

\* C11 (as stated): for every line, _looks_code returns true exactly when
\* the pattern of _extract_code_candidates matches the line.
C11_Original == pc = "classified" => fn_out.looks_code = fn_out.code_like

\* The code of the code blocks of topic k, in order.
BlockCodes(k) ==
    [j \in 1..Len(topics[k].code_sections) |-> topics[k].code_sections[j].code]

\* The code-like OCR lines of the window of topic k joined as one snippet,
\* or nothing when the window has none.
OwnSnippet(k) ==
    LET coded == SelectSeq(OcrLinesOf(k), looks_code)
    IN IF coded = <<>> THEN <<>> ELSE <<JoinLines(coded)>>

\* C12: the code blocks of the first topic note are the global code snippets
\* followed by the window's own OCR snippet, each cleaned; the code blocks
\* of every later note are its window's own OCR snippet alone, so such a
\* note has at most one code block.
C12_GlobalCodeOnFirst ==
    \A k \in 1..Len(topics) :
        LET attached == (IF k = 1 THEN raw.code_snippets ELSE <<>>) \o OwnSnippet(k)
        IN /\ BlockCodes(k) = [j \in 1..Len(attached) |-> clean_code(attached[j])]
           /\ k > 1 => Len(topics[k].code_sections) <= 1

\* A returned run with global snippets whose first note carries them and
\* its own OCR snippet, and whose second note carries one block, made of the
\* code-like OCR lines of the second window.
C12_Witness ==
    /\ RunReturned
    /\ Len(topics) >= 2
    /\ raw.code_snippets # <<>>
    /\ Len(topics[1].code_sections) = Len(raw.code_snippets) + 1
    /\ Len(topics[2].code_sections) = 1
    /\ OwnSnippet(2) # <<>>
    /\ OwnSnippet(2) # OwnSnippet(1)

\* The words of the window of topic k that count for its title: the runs of
\* four letters or more of its lines, in lower case, without the stop words.
Survivors(k) ==
    SelectSeq(TitleWords(ChunkLinesOf(k), 1), LAMBDA w : w \notin STOP_WORDS)

Occurrences(ws, w) == Cardinality({ i \in 1..Len(ws) : ws[i] = w })

FirstAt(ws, w) == CHOOSE i \in 1..Len(ws) : ws[i] = w /\ \A j \in 1..(i - 1) : ws[j] # w

\* v comes before w: it occurs more often, or as often and earlier.
Before(ws, v, w) ==
    \/ Occurrences(ws, v) > Occurrences(ws, w)
    \/ Occurrences(ws, v) = Occurrences(ws, w) /\ FirstAt(ws, v) < FirstAt(ws, w)

\* The word of ws with exactly n words before it.
WordOfRank(ws, n) ==
    LET words == { ws[i] : i \in 1..Len(ws) }
    IN CHOOSE w \in words : Cardinality({ v \in words : Before(ws, v, w) }) = n

\* The title the claim gives topic k.
ExpectedTitle(k) ==
    LET ws == Survivors(k)
        distinct == Cardinality({ ws[i] : i \in 1..Len(ws) })
        base == IF distinct = 0 THEN <<"Section", " ">> \o IndexStr(k)
                ELSE IF distinct = 1 THEN <<Capitalize(WordOfRank(ws, 0))>>
                ELSE <<Capitalize(WordOfRank(ws, 0)), " ", "&", " ",
                       Capitalize(WordOfRank(ws, 1))>>
    IN <<"Topic", " ">> \o IndexStr(k) \o <<":", " ">> \o base
       \o (IF language = "hinglish" THEN <<" ", "Concept">> ELSE <<>>)

\* C13: the title of a topic is "Topic {index}: " followed by the two most
\* frequent non-stop-word runs of four letters or more of the window's
\* lines, ties going to the word met first, capitalized and joined by " & ",
\* or by "Section {index}" when there is no such word, and by " Concept" in
\* hinglish only.
C13_TitleTopTwo ==
    \A k \in 1..Len(topics) :
        /\ topics[k].topic_name = ExpectedTitle(k)
        /\ LET ws == Survivors(k)
           IN \A j \in 1..Len(ws) : \E p \in CapPairs : p[1] = ws[j] /\ p[2] # p[1]

\* A returned hinglish run whose first title has a most frequent word that
\* is not the first word met and a second word that wins a tie by being met
\* first, and whose second title is the fallback.
C13_Witness ==
    /\ RunReturned
    /\ language = "hinglish"
    /\ Len(topics) = 2
    /\ LET ws == Survivors(1)
       IN /\ WordOfRank(ws, 0) # ws[1]
          /\ \E w \in { ws[i] : i \in 1..Len(ws) } :
                /\ w # WordOfRank(ws, 1)
                /\ Occurrences(ws, w) = Occurrences(ws, WordOfRank(ws, 1))
    /\ Survivors(2) = <<>>
    /\ topics[2].topic_name = <<"Topic", " ", "2", ":", " ", "Section", " ", "2",
                                " ", "Concept">>

\* The OCR entries re-expressed as transcript entries of 6.0 seconds.
OcrAsEntries ==
    [k \in 1..Len(raw.ocr_entries) |->
        [text |-> raw.ocr_entries[k].text,
         start |-> raw.ocr_entries[k].second * TicksPerSecond,
         duration |-> 6 * TicksPerSecond]]

\* C14: a run that returns returns between 1 and 5 topic notes, one for each
\* emitted window and in the order of the windows; the base sequence is the
\* transcript entries, or the OCR entries re-expressed when there are none,
\* it is not empty, and it yields at least one window.
C14_OneNotePerWindow ==
    RunReturned =>
        /\ entries = IF raw.transcript_entries # <<>> THEN raw.transcript_entries
                     ELSE OcrAsEntries
        /\ entries # <<>>
        /\ windows = TopicWindows(entries, 5, 90)
        /\ Len(windows) >= 1
        /\ Len(topics) = Len(windows)
        /\ Len(topics) >= 1 /\ Len(topics) <= 5
        /\ \A k \in 1..Len(topics) :
              /\ topics[k].index = k
              /\ topics[k].topic_name = topic_title(ChunkLinesOf(k), k, language)
              /\ gathered[k] = OcrPositions(raw, windows[k].start, windows[k].end)

\* A returned run of 5 notes whose transcript goes on after the fifth
\* window: its last entries are in no window.
C14_Witness ==
    /\ RunReturned
    /\ Len(topics) = 5
    /\ raw.transcript_entries # <<>>
    /\ \E i \in 1..Len(entries) :
          \A k \in 1..Len(windows) : \A j \in 1..Len(windows[k].chunk) :
              windows[k].chunk[j] # i

\* The topics whose OCR lines hold the OCR entry at position p.
GatheredInto(p) ==
    { k \in 1..Len(gathered) : \E j \in 1..Len(gathered[k]) : gathered[k][j] = p }

\* C15: an OCR entry is gathered into the OCR lines of at most two windows,
\* and into two only when they are one emitted window and the next and its
\* second is the end of the one and the start of the other; an entry whose
\* second is strictly inside a window is gathered into that window alone.
C15_GatheredAtMostTwice ==
    \A p \in 1..Len(raw.ocr_entries) :
        LET second == raw.ocr_entries[p].second
            into == GatheredInto(p)
        IN /\ Cardinality(into) <= 2
           /\ Cardinality(into) = 2 =>
                 \E k \in into :
                     /\ into = {k, k + 1}
                     /\ second = windows[k].end
                     /\ second = windows[k + 1].start
           /\ \A k \in 1..Len(windows) :
                 (windows[k].start < second /\ second < windows[k].end) =>
                     /\ into \subseteq {k}
                     /\ k <= Len(gathered) => into = {k}

\* A returned run with an OCR entry at the second where the first window
\* ends and the second starts, gathered into both, and an OCR entry strictly
\* inside the first window, gathered into it alone.
C15_Witness ==
    /\ RunReturned
    /\ Len(windows) >= 2
    /\ \E p \in 1..Len(raw.ocr_entries) :
          /\ raw.ocr_entries[p].second = windows[1].end
          /\ GatheredInto(p) = {1, 2}
    /\ \E p \in 1..Len(raw.ocr_entries) :
          /\ windows[1].start < raw.ocr_entries[p].second
          /\ raw.ocr_entries[p].second < windows[1].end
          /\ GatheredInto(p) = {1}

\* C16: the call of _topic_windows ends; each iteration of its loop moves
\* the cursor up by window_seconds, whether or not a window is emitted, and
\* the loop is left only once the cursor is past the end of the signal or
\* max_topics windows have been emitted.
C16_LoopTerminates ==
    /\ <>(pc = "done")
    /\ [][(pc = "loop" /\ pc' = "loop") =>
             /\ cursor' = cursor + window_seconds
             /\ cursor' > cursor
             /\ iterations' = iterations + 1]_vars
    /\ [][(pc = "loop" /\ pc' = "done") =>
             (cursor > last \/ Len(grouped) >= max_topics)]_vars

\* A call that ended after several iterations, one of which emitted no
\* window, with the cursor past the end of the signal.
C16_Witness ==
    /\ pc = "done"
    /\ entries # <<>>
    /\ iterations >= 3
    /\ Len(grouped) >= 1
    /\ Len(grouped) < iterations
    /\ cursor > last
    /\ cursor = IntOf(entries[1].start) + iterations * window_seconds

---------------------------------------------------------------------------
(* Claims about the HTTP handlers *)

\* the step answers a request
Answered == Len(served') = Len(served) + 1

ExportFormats == {"markdown", "docx", "pdf"}

\* C17: over any sequence of process and download requests, a process
\* request whose pipeline run raises ValueError is answered 400 and leaves
\* EXPORT_INDEX as it was; a process request answered 200 adds exactly one
\* note_id that was not in EXPORT_INDEX, mapping markdown, docx and pdf,
\* and leaves every entry that was there as it was; a download of a note_id
\* that is not in EXPORT_INDEX is answered 404.
C17_IndexDiscipline ==
    [][Answered =>
        /\ (last_response'.op = "process" /\ last_response'.run = "ValueError") =>
              /\ last_response'.status = 400
              /\ EXPORT_INDEX' = EXPORT_INDEX
        /\ (last_response'.op = "process" /\ last_response'.status = 400) =>
              EXPORT_INDEX' = EXPORT_INDEX
        /\ (last_response'.op = "process" /\ last_response'.status = 200) =>
              /\ DOMAIN EXPORT_INDEX \subseteq DOMAIN EXPORT_INDEX'
              /\ DOMAIN EXPORT_INDEX' \ DOMAIN EXPORT_INDEX = {last_response'.note_id}
              /\ DOMAIN EXPORT_INDEX'[last_response'.note_id] = ExportFormats
              /\ \A note_id \in DOMAIN EXPORT_INDEX :
                    EXPORT_INDEX'[note_id] = EXPORT_INDEX[note_id]
        /\ (last_response'.op = "download"
              /\ last_response'.note_id \notin DOMAIN EXPORT_INDEX) =>
              last_response'.status = 404]_vars

\* Two notes were stored, a run in between raised ValueError and was answered
\* 400, and the last request asked for a note that is not stored.
C17_Witness ==
    /\ pc = "serving"
    /\ Cardinality(DOMAIN EXPORT_INDEX) = 2
    /\ \E i \in 1..Len(served) : served[i] = 400
    /\ last_response.op = "download"
    /\ last_response.note_id \notin DOMAIN EXPORT_INDEX
    /\ last_response.status = 404

====
